---- MODULE Spec2Model ----
(***************************************************************************)
(* Model of the Tetris game loop of rgruesbeck/tetris (frontend/game):     *)
(* Game (main.js), Piece (characters/piece.js), Block.shift, the grid      *)
(* utilities and pickFromList.  One action per handler / callback; the     *)
(* frame callback play() is a single action.                               *)
(*                                                                         *)
(* Modelling notes.                                                        *)
(*  - Array.prototype.sort is taken as stable (ECMAScript 2019 onwards).   *)
(*  - requestAnimationFrame ids are taken as consecutive integers; only    *)
(*    frame.count modulo tickRate is kept.                                 *)
(*  - parseInt(rand) in randomBetween is taken as truncation of rand; the  *)
(*    exponent rendering of values below 1e-6 is outside the modelled      *)
(*    range of Math.random().                                              *)
(*  - Rendering, audio and the overlay are left out; an overlay or canvas  *)
(*    access after destroy() is modelled as the TypeError it raises.       *)
(***************************************************************************)
EXTENDS Integers, Sequences, FiniteSets

(* ---------------- bounds of the model ---------------- *)
\* ticks queued over a run, inputs and host events (clicks, configuration
\* changes, destroy) over a run, queue length at which the player stops adding
\* inputs, calls of load() over a run
MaxTicks == 7
MaxInputs == 2
MaxQueue == 2
MaxLoads == 2
\* the same for the runs of the game alone (PlaySpec) and of the bag (BagSpec)
PlayMaxTicks == 14
PlayMaxInputs == 2
BagMaxTicks == 120
BagMaxSpawns == 8
ClearMaxTicks == 24
ClearMaxInputs == 5
ClearMaxSpawns == 5
PieceMaxColumns == 6
PieceMaxRows == 5

Limits(ticks, inputs, spawns) ==
    [ticks |-> ticks, inputs |-> inputs, spawns |-> spawns]

VARIABLES
    config,         \* config.settings as read by the constructor and init()
    current,        \* state.current
    score,          \* state.score
    paused,         \* state.paused
    infinityAction, \* state.infinityAction
    tickQueue,      \* this.tickQueue, each tick stamped with its queueing rank
    ticksQueued,    \* number of queueTick calls so far (the last stamp)
    inputsUsed,     \* number of player inputs and host events so far
    frameCount,     \* frame.count modulo tickRate
    pendingLatest,  \* the frame request with id frame.count is pending
    pendingOld,     \* number of older frame requests still pending
    loads,          \* asset promises of load() in flight
    loadsStarted,   \* number of load() calls so far
    destroyed,      \* destroy() has deleted overlay and canvases
    pieces,         \* this.pieces
    stack,          \* this.stack
    grid,           \* this.board.grid, as the set of cells set to true
    bag,            \* this.bag
    lastRun,        \* history: the ticks run by the latest play(); for a
                    \* piece on its own, the latest shift() call or the
                    \* rotate() calls made in a row, with the piece before
    spawned,        \* history: the shapes dispensed since init()
    clearLog        \* history: the latest line clear

vars == <<config, current, score, paused, infinityAction, tickQueue,
          ticksQueued, inputsUsed, frameCount, pendingLatest, pendingOld,
          loads, loadsStarted, destroyed, pieces, stack, grid, bag, lastRun,
          spawned, clearLog>>

(* ---------------- configuration (config.settings) ---------------- *)
Settings(columns, rows, tickRate, lockDelayTicks, modeInfinity) ==
    [columns |-> columns, rows |-> rows, tickRate |-> tickRate,
     lockDelayTicks |-> lockDelayTicks, modeInfinity |-> modeInfinity]

Columns == config.columns
Rows == config.rows
TickRate == config.tickRate
LockDelayTicks == config.lockDelayTicks
\* modeInfinity read as enabled whatever the settings say
modeInfinityOn == TRUE

modeInfinity == config.modeInfinity

(* ---------------- baseUtils.js ---------------- *)
Max2(a, b) == IF a > b THEN a ELSE b
Min2(a, b) == IF a < b THEN a ELSE b

RECURSIVE ReduceMax(_, _)
ReduceMax(list, acc) ==
    IF list = <<>> THEN acc ELSE ReduceMax(Tail(list), Max2(acc, Head(list)))

RECURSIVE ReduceMin(_, _)
ReduceMin(list, acc) ==
    IF list = <<>> THEN acc ELSE ReduceMin(Tail(list), Min2(acc, Head(list)))

\* list.reduce((max, item) => Math.max(max, item), 0)
getMaxFromList(list) == ReduceMax(list, 0)

\* list.reduce((min, item) => Math.min(min, item), list[0] + 1)
getMinFromList(list) == ReduceMin(list, list[1] + 1)

\* indexes (1-based) pickFromList can return for a list of length len:
\* parseInt(Math.random() * (len - 1)), Math.random() in [0, 1)
pickIndexes(len) ==
    IF len < 1 THEN {} ELSE IF len = 1 THEN {1} ELSE 1..(len - 1)

(* ---------------- gridUtils.js ---------------- *)
Cell(x, y) == [x |-> x, y |-> y]

\* the grid is kept as the set of cells whose entry is true
gridCell(g, x, y) == Cell(x, y) \in g
gridRow(g, y) == {c \in g : c.y = y}
setGridCell(g, cell) == g \cup {cell}
neighborLeft(g, cell) == gridCell(g, cell.x - 1, cell.y)
neighborRight(g, cell) == gridCell(g, cell.x + 1, cell.y)
neighborDown(g, cell) == gridCell(g, cell.x, cell.y + 1)

(* ---------------- Block ---------------- *)
Block(cell) == [cell |-> cell, unsupported |-> FALSE]

BlockShift(block, dx, dy) ==
    [block EXCEPT !.cell = Cell(block.cell.x + dx, block.cell.y + dy)]

(* ---------------- Piece ---------------- *)
selectShape(idx) ==
    CASE idx = 0 -> <<Cell(1, 0), Cell(0, 0), Cell(2, 0), Cell(3, 0)>>
      [] idx = 1 -> <<Cell(1, 1), Cell(0, 1), Cell(0, 0), Cell(2, 1)>>
      [] idx = 2 -> <<Cell(2, 1), Cell(1, 1), Cell(3, 1), Cell(3, 0)>>
      [] idx = 3 -> <<Cell(0, 0), Cell(0, 1), Cell(1, 0), Cell(1, 1)>>
      [] idx = 4 -> <<Cell(1, 1), Cell(1, 0), Cell(0, 1), Cell(2, 0)>>
      [] idx = 5 -> <<Cell(1, 1), Cell(1, 0), Cell(0, 0), Cell(2, 1)>>
      [] idx = 6 -> <<Cell(1, 1), Cell(1, 0), Cell(0, 1), Cell(2, 1)>>

createBody(idx) == [i \in 1..4 |-> Block(selectShape(idx)[i])]

getBox(body) ==
    LET listY == [i \in 1..Len(body) |-> body[i].cell.y]
        listX == [i \in 1..Len(body) |-> body[i].cell.x]
    IN  [top |-> getMinFromList(listY), bottom |-> getMaxFromList(listY),
         right |-> getMaxFromList(listX), left |-> getMinFromList(listX)]

\* shift that slides along the wall: a rejected horizontal move still moves
\* the blocks by the vertical part of the request
PieceShiftSlide(piece, dx, dy) ==
    LET hitLeft == piece.box.left + dx < 0
        hitRight == piece.box.right + dx > Columns - 1
        mx == IF hitLeft \/ hitRight THEN 0 ELSE dx
    IN  IF piece.placed
        THEN piece
        ELSE LET body == [i \in 1..Len(piece.body) |->
                            BlockShift(piece.body[i], mx, dy)]
             IN  [piece EXCEPT !.body = body, !.box = getBox(body)]

\* shift without the hitLeft / hitRight test
PieceShiftNoWalls(piece, dx, dy) ==
    IF piece.placed
    THEN piece
    ELSE LET body == [i \in 1..Len(piece.body) |->
                        BlockShift(piece.body[i], dx, dy)]
         IN  [piece EXCEPT !.body = body, !.box = getBox(body)]

PieceShift(piece, dx, dy) ==
    LET hitLeft == piece.box.left + dx < 0
        hitRight == piece.box.right + dx > Columns - 1
    IN  IF piece.placed \/ hitLeft \/ hitRight
        THEN piece
        ELSE LET body == [i \in 1..Len(piece.body) |->
                            BlockShift(piece.body[i], dx, dy)]
             IN  [piece EXCEPT !.body = body, !.box = getBox(body)]

\* rotateCellAround adding the origin back with x and y exchanged
rotateCellAroundSwapped(cell, origin) ==
    LET rel == Cell(cell.x - origin.x, cell.y - origin.y)
        rot == Cell(0 - rel.y, rel.x)
    IN  Cell(rot.x + origin.y, rot.y + origin.x)

rotateCellAround(cell, origin) ==
    LET rel == Cell(cell.x - origin.x, cell.y - origin.y)
        rot == Cell(0 - rel.y, rel.x)
    IN  Cell(rot.x + origin.x, rot.y + origin.y)

rotatedCells(piece) ==
    [i \in 1..Len(piece.body) |->
        rotateCellAround(piece.body[i].cell, piece.body[1].cell)]

\* rotate without the closing shift({ x: 0, y: 0 }) that recomputes the box
PieceRotateNoShift(piece) ==
    LET cells == rotatedCells(piece)
    IN  [piece EXCEPT !.body = [i \in 1..Len(piece.body) |->
                                  [piece.body[i] EXCEPT !.cell = cells[i]]]]

PieceRotate(piece) ==
    LET cells == rotatedCells(piece)
        body == [i \in 1..Len(piece.body) |->
                    [piece.body[i] EXCEPT !.cell = cells[i]]]
    IN  PieceShift([piece EXCEPT !.body = body], 0, 0)

\* the spawn column without the half body length taken off
SpawnCenterHalf == Columns \div 2

\* Math.round(columns / 2 - body.length / 2)
SpawnCenter == (Columns - 4 + 1) \div 2

NewPiece(shape) ==
    PieceShift([body |-> createBody(shape),
                box |-> [top |-> 0, right |-> 0, bottom |-> 0, left |-> 0],
                placed |-> FALSE, preplaceTick |-> 0], SpawnCenter, 0)

(* ---------------- Game: tick queue ---------------- *)
Tick(priority, run, id) == [priority |-> priority, run |-> run, id |-> id]

\* one step of a stable sort by ascending priority: e goes after every
\* earlier entry whose priority is not greater
RECURSIVE InsertByPriority(_, _)
InsertByPriority(sorted, e) ==
    IF sorted = <<>> THEN <<e>>
    ELSE IF sorted[Len(sorted)].priority <= e.priority
         THEN Append(sorted, e)
         ELSE Append(InsertByPriority(SubSeq(sorted, 1, Len(sorted) - 1), e),
                     sorted[Len(sorted)])

RECURSIVE SortFrom(_, _)
SortFrom(sorted, rest) ==
    IF rest = <<>> THEN sorted
    ELSE SortFrom(InsertByPriority(sorted, Head(rest)), Tail(rest))

\* queue.sort((a, b) => a.priority - b.priority)
sortByPriority(queue) == SortFrom(<<>>, queue)

\* queueTick with the new entry put last: [...this.tickQueue, { priority, run }]
queueTickLast(queue, tick) == sortByPriority(queue \o <<tick>>)

\* [{ priority, run }, ...this.tickQueue].sort(...)
queueTick(queue, tick) == sortByPriority(<<tick>> \o queue)

\* popTick with shift() in place of pop(): the first entry is taken
popTickShift(queue) == [tick |-> queue[1], rest |-> Tail(queue)]

\* popTick emptying the queue: the entries not run are lost
popTickClear(queue) == [tick |-> queue[Len(queue)], rest |-> <<>>]

\* const tick = this.tickQueue.pop()
popTick(queue) == [tick |-> queue[Len(queue)],
                   rest |-> SubSeq(queue, 1, Len(queue) - 1)]

(* ---------------- Game: the tick tasks ---------------- *)
\* each task maps a game record g = [pieces, stack, grid, infinityAction]
\* to the record after the task

\* pieceDown counting the tick before the test: the piece is placed by the
\* lockDelayTicks-th grounded tick
pieceDownCountFirst(piece, g, infinity) ==
    LET hitBottom == piece.box.bottom > Rows - 2
        hasDownNeighbor ==
            \E i \in 1..Len(piece.body) : neighborDown(g, piece.body[i].cell)
        tick0 == IF infinity THEN 0 ELSE piece.preplaceTick
    IN  IF ~hitBottom /\ ~hasDownNeighbor
        THEN [piece |-> PieceShift(piece, 0, 1), infinity |-> infinity]
        ELSE [piece |-> IF tick0 + 1 >= LockDelayTicks
                        THEN [piece EXCEPT !.preplaceTick = tick0 + 1,
                                           !.placed = TRUE]
                        ELSE [piece EXCEPT !.preplaceTick = tick0 + 1],
              infinity |-> FALSE]

pieceDown(piece, g, infinity) ==
    LET hitBottom == piece.box.bottom > Rows - 2
        hasDownNeighbor ==
            \E i \in 1..Len(piece.body) : neighborDown(g, piece.body[i].cell)
        tick0 == IF infinity THEN 0 ELSE piece.preplaceTick
    IN  IF ~hitBottom /\ ~hasDownNeighbor
        THEN [piece |-> PieceShift(piece, 0, 1), infinity |-> infinity]
        ELSE [piece |-> IF tick0 >= LockDelayTicks
                        THEN [piece EXCEPT !.preplaceTick = tick0,
                                           !.placed = TRUE]
                        ELSE [piece EXCEPT !.preplaceTick = tick0 + 1],
              infinity |-> FALSE]

\* updatePieces over the pieces in order, threading state.infinityAction
RECURSIVE downAll(_, _, _, _)
downAll(done, todo, g, infinity) ==
    IF todo = <<>> THEN [pieces |-> done, infinityAction |-> infinity]
    ELSE LET r == pieceDown(Head(todo), g, infinity)
         IN  downAll(Append(done, r.piece), Tail(todo), g, r.infinity)

shiftPieceDown(g) ==
    LET r == downAll(<<>>, g.pieces, g.grid, g.infinityAction)
    IN  [g EXCEPT !.pieces = r.pieces, !.infinityAction = r.infinityAction]

shiftPieceLeft(g) ==
    [g EXCEPT !.pieces = [k \in 1..Len(g.pieces) |->
        LET piece == g.pieces[k]
            hasLeftNeighbor == \E i \in 1..Len(piece.body) :
                                  neighborLeft(g.grid, piece.body[i].cell)
        IN  IF ~hasLeftNeighbor THEN PieceShift(piece, -1, 0) ELSE piece]]

shiftPieceRight(g) ==
    [g EXCEPT !.pieces = [k \in 1..Len(g.pieces) |->
        LET piece == g.pieces[k]
            hasRightNeighbor == \E i \in 1..Len(piece.body) :
                                   neighborRight(g.grid, piece.body[i].cell)
        IN  IF ~hasRightNeighbor THEN PieceShift(piece, 1, 0) ELSE piece]]

\* rotatePiece without the test against the cells of the stack
rotatePieceOnEdgeOnly(g) ==
    [g EXCEPT !.pieces = [k \in 1..Len(g.pieces) |->
        LET piece == g.pieces[k]
            cells == rotatedCells(piece)
            onEdge == \E i \in 1..Len(cells) :
                         \/ cells[i].x < 0 \/ cells[i].x >= Columns
                         \/ cells[i].y < 0 \/ cells[i].y >= Rows
        IN  IF ~onEdge THEN PieceRotate(piece) ELSE piece]]

rotatePiece(g) ==
    [g EXCEPT !.pieces = [k \in 1..Len(g.pieces) |->
        LET piece == g.pieces[k]
            cells == rotatedCells(piece)
            blockingCells == \E b \in 1..Len(g.stack) : \E i \in 1..Len(cells) :
                                g.stack[b].cell = cells[i]
            onEdge == \E i \in 1..Len(cells) :
                         \/ cells[i].x < 0 \/ cells[i].x >= Columns
                         \/ cells[i].y < 0 \/ cells[i].y >= Rows
        IN  IF ~blockingCells /\ ~onEdge THEN PieceRotate(piece) ELSE piece]]

\* shiftStackDown with the test inverted: the supported blocks move
shiftStackDownSupported(g) ==
    [g EXCEPT !.stack = [b \in 1..Len(g.stack) |->
        IF ~g.stack[b].unsupported
        THEN [BlockShift(g.stack[b], 0, 1) EXCEPT !.unsupported = FALSE]
        ELSE g.stack[b]]]

shiftStackDown(g) ==
    [g EXCEPT !.stack = [b \in 1..Len(g.stack) |->
        IF g.stack[b].unsupported
        THEN [BlockShift(g.stack[b], 0, 1) EXCEPT !.unsupported = FALSE]
        ELSE g.stack[b]]]

runTick(run, g) ==
    CASE run = "shiftPieceDown" -> shiftPieceDown(g)
      [] run = "shiftPieceLeft" -> shiftPieceLeft(g)
      [] run = "shiftPieceRight" -> shiftPieceRight(g)
      [] run = "rotatePiece" -> rotatePiece(g)
      [] run = "shiftStackDown" -> shiftStackDown(g)

(* ---------------- Game: play() ---------------- *)
RECURSIVE Flat(_)
Flat(bodies) == IF bodies = <<>> THEN <<>> ELSE Head(bodies) \o Flat(Tail(bodies))

isPlaced(piece) == piece.placed
notPlaced(piece) == ~piece.placed

\* this.stack.map(b => b.cell).reduce((grid, cell) => setGridCell(grid, cell, true), [])
RECURSIVE gridOf(_, _)
gridOf(g, blocks) ==
    IF blocks = <<>> THEN g
    ELSE gridOf(setGridCell(g, Head(blocks).cell), Tail(blocks))

\* rowCounts[y]: how many stack blocks have cell.y = y
rowCount(blocks, y) == Cardinality({b \in 1..Len(blocks) : blocks[b].cell.y = y})

\* rows whose count equals board.columns (Object.entries lists them ascending)
fullRowsOf(blocks) ==
    {y \in {blocks[b].cell.y : b \in 1..Len(blocks)} : rowCount(blocks, y) = Columns}

firstFullRow(blocks) ==
    CHOOSE y \in fullRowsOf(blocks) : \A z \in fullRowsOf(blocks) : y <= z

\* clearRow without the filter: the blocks of row r stay in the stack
clearRowKeep(blocks, r) ==
    [b \in 1..Len(blocks) |->
        IF blocks[b].cell.y < r
        THEN [blocks[b] EXCEPT !.unsupported = TRUE]
        ELSE blocks[b]]

\* clearRow removing every full row at once
clearRowAll(blocks, r) ==
    LET marked == [b \in 1..Len(blocks) |->
                      IF blocks[b].cell.y < r
                      THEN [blocks[b] EXCEPT !.unsupported = TRUE]
                      ELSE blocks[b]]
        keep(block) == block.cell.y \notin fullRowsOf(blocks)
    IN  SelectSeq(marked, keep)

\* mark the blocks above row r unsupported, remove the blocks of row r
clearRow(blocks, r) ==
    LET marked == [b \in 1..Len(blocks) |->
                      IF blocks[b].cell.y < r
                      THEN [blocks[b] EXCEPT !.unsupported = TRUE]
                      ELSE blocks[b]]
        keep(block) == block.cell.y # r
    IN  SelectSeq(marked, keep)

FullBag == <<0, 1, 2, 3, 4, 5, 6>>

\* removeShape leaving the bag as it is
removeShapeNone(list, shape) == list

\* this.bag = this.bag.filter(s => s != shape)
removeShape(list, shape) ==
    LET differs(s) == s # shape
    IN  SelectSeq(list, differs)

tickStepKeepsPlaced(g, i) ==
    LET popped == popTick(sortByPriority(g.tickQueue))
        ran == runTick(popped.tick.run, g)
        stack2 == ran.stack \o
                  Flat([k \in 1..Len(SelectSeq(ran.pieces, isPlaced)) |->
                            SelectSeq(ran.pieces, isPlaced)[k].body])
        pieces2 == ran.pieces
        spawn == Len(SelectSeq(pieces2, notPlaced)) < 1
        shape == g.bag[i]
    IN  [ran EXCEPT !.tickQueue = popped.rest,
                    !.ran = <<popped.tick>>,
                    !.stack = stack2,
                    !.pieces = IF spawn THEN Append(pieces2, NewPiece(shape))
                               ELSE pieces2,
                    !.bag = IF spawn THEN removeShape(g.bag, shape) ELSE g.bag,
                    !.spawned = IF spawn THEN Append(g.spawned, shape)
                                ELSE g.spawned,
                    !.grid = gridOf({}, stack2)]

\* the part of play() guarded by "queuedTick": run one tick, merge placed
\* pieces into the stack, spawn (shape = bag[i]), rebuild the grid
tickStep(g, i) ==
    LET popped == popTick(sortByPriority(g.tickQueue))
        ran == runTick(popped.tick.run, g)
        stack2 == ran.stack \o
                  Flat([k \in 1..Len(SelectSeq(ran.pieces, isPlaced)) |->
                            SelectSeq(ran.pieces, isPlaced)[k].body])
        pieces2 == SelectSeq(ran.pieces, notPlaced)
        spawn == Len(SelectSeq(pieces2, notPlaced)) < 1
        shape == g.bag[i]
    IN  [ran EXCEPT !.tickQueue = popped.rest,
                    !.ran = <<popped.tick>>,
                    !.stack = stack2,
                    !.pieces = IF spawn THEN Append(pieces2, NewPiece(shape))
                               ELSE pieces2,
                    !.bag = IF spawn THEN removeShape(g.bag, shape) ELSE g.bag,
                    !.spawned = IF spawn THEN Append(g.spawned, shape)
                                ELSE g.spawned,
                    !.grid = gridOf({}, stack2)]

\* cadenceStep that queues no gravity tick: only the line clear is left
cadenceStepNoGravity(g) ==
    IF fullRowsOf(g.stack) # {}
    THEN [g EXCEPT !.score = g.score + 100,
                   !.stack = clearRow(g.stack, firstFullRow(g.stack)),
                   !.clearLog = [row |-> firstFullRow(g.stack),
                                 stack |-> clearRow(g.stack, firstFullRow(g.stack)),
                                 settle |-> g.ticksQueued + 1],
                   !.tickQueue = queueTick(g.tickQueue,
                        Tick(1, "shiftStackDown", g.ticksQueued + 1)),
                   !.ticksQueued = g.ticksQueued + 1]
    ELSE g

\* the part of play() guarded by "scheduledTick": queue gravity, clear a line
cadenceStep(g) ==
    LET q1 == queueTick(g.tickQueue, Tick(1, "shiftPieceDown", g.ticksQueued + 1))
    IN  IF fullRowsOf(g.stack) # {}
        THEN [g EXCEPT !.score = g.score + 100,
                       !.stack = clearRow(g.stack, firstFullRow(g.stack)),
                       !.clearLog = [row |-> firstFullRow(g.stack),
                                     stack |-> clearRow(g.stack, firstFullRow(g.stack)),
                                     settle |-> g.ticksQueued + 2],
                       !.tickQueue = queueTick(q1,
                            Tick(1, "shiftStackDown", g.ticksQueued + 2)),
                       !.ticksQueued = g.ticksQueued + 2]
        ELSE [g EXCEPT !.tickQueue = q1, !.ticksQueued = g.ticksQueued + 1]

\* the start of the block of play() for state.current === 'play': the game
\* over check and the bag refill
startStep(g) ==
    [g EXCEPT !.current = IF gridRow(g.grid, 0) # {} THEN "over" ELSE g.current,
              !.bag = IF Len(g.bag) < 1 THEN FullBag ELSE g.bag]

Game == [current |-> current, score |-> score, infinityAction |-> infinityAction,
         tickQueue |-> tickQueue, ticksQueued |-> ticksQueued,
         frameCount |-> frameCount, pieces |-> pieces, stack |-> stack,
         grid |-> grid, bag |-> bag, ran |-> <<>>, spawned |-> spawned,
         clearLog |-> clearLog]

NoClear == [row |-> -1, stack |-> <<>>, settle |-> 0]

\* requestFrame: the callback requested before stays pending, frame.count
\* becomes the id of the new request
RequestFrame(latest, old) ==
    /\ pendingLatest' = TRUE
    /\ pendingOld' = old + (IF latest THEN 1 ELSE 0)
    /\ frameCount' = (frameCount + 1) % TickRate

\* the callback that fires: the oldest pending request
FiredLatest == IF pendingOld > 0 THEN pendingLatest ELSE FALSE
FiredOld == IF pendingOld > 0 THEN pendingOld - 1 ELSE 0

(* ---------------- Game: dropPiece ---------------- *)
\* smallest cell.y among the stack cells of column x, maxShift if none
minPairY(blocks, x) ==
    LET col == {blocks[b].cell.y : b \in {k \in 1..Len(blocks) : blocks[k].cell.x = x}}
    IN  IF col = {} THEN Rows
        ELSE Min2(Rows, CHOOSE y \in col : \A z \in col : y <= z)

RECURSIVE minShiftOf(_, _, _)
minShiftOf(body, blocks, min) ==
    IF body = <<>> THEN min
    ELSE LET dy == minPairY(blocks, Head(body).cell.x) - Head(body).cell.y
         IN  minShiftOf(Tail(body), blocks, IF min < dy THEN min ELSE dy)

\* number of down-shift ticks dropPiece queues for the piece
dropShift(piece, blocks) == Max2(0, minShiftOf(piece.body, blocks, Rows))

RECURSIVE queueTicks(_, _, _, _, _)
queueTicks(queue, n, priority, run, lastId) ==
    IF n <= 0 THEN queue
    ELSE queueTicks(queueTick(queue, Tick(priority, run, lastId + 1)),
                    n - 1, priority, run, lastId + 1)

\* the piece dropPiece works on; reduce() of an empty array throws
canDrop == Len(SelectSeq(pieces, notPlaced)) > 0
dropCount == dropShift(SelectSeq(pieces, notPlaced)[1], stack)

(* ---------------- initial state ---------------- *)
\* the state after new Game(...) and the load() call that follows it in
\* componentDidMount, for the settings cfg
InitWith(cfg) ==
    /\ config = cfg
    /\ current = "loading"
    /\ score = 0
    /\ paused = FALSE
    /\ infinityAction = FALSE
    /\ tickQueue = <<>>
    /\ ticksQueued = 0
    /\ inputsUsed = 0
    /\ frameCount = 0
    /\ pendingLatest = FALSE
    /\ pendingOld = 0
    /\ loads = 1
    /\ loadsStarted = 1
    /\ destroyed = FALSE
    /\ pieces = <<>>
    /\ stack = <<>>
    /\ grid = {}
    /\ bag = <<>>
    /\ lastRun = <<>>
    /\ spawned = <<>>
    /\ clearLog = NoClear

DefaultSettings == Settings(4, 4, 2, 1, FALSE)

Init == InitWith(DefaultSettings)

(* ---------------- Game: the frame callback ---------------- *)
\* a frame callback fires while the game objects exist: play(), in state
\* 'play' the game over check and bag refill, then the queued tick, then the
\* scheduled tick; i is the index pickFromList draws; lim bounds the ticks
\* queued and the pieces spawned over the run
Frame(lim) ==
    /\ pendingLatest \/ pendingOld > 0
    /\ ~destroyed
    /\ current = "play" /\ frameCount % TickRate = 0 => ticksQueued + 2 <= lim.ticks
    /\ Len(spawned) < lim.spawns
    /\ \E i \in pickIndexes(IF Len(bag) < 1 THEN Len(FullBag) ELSE Len(bag)) :
        \E g1 \in {IF current = "play" THEN startStep(Game) ELSE Game} :
        \E g2 \in {IF current = "play" /\ Len(g1.tickQueue) > 0
                   THEN tickStep(g1, i) ELSE g1} :
        \E g \in {IF current = "play" /\ frameCount % TickRate = 0
                  THEN cadenceStep(g2) ELSE g2} :
             /\ current' = g.current
             /\ score' = g.score
             /\ infinityAction' = g.infinityAction
             /\ tickQueue' = g.tickQueue
             /\ ticksQueued' = g.ticksQueued
             /\ pieces' = g.pieces
             /\ stack' = g.stack
             /\ grid' = g.grid
             /\ bag' = g.bag
             /\ lastRun' = g.ran
             /\ spawned' = g.spawned
             /\ clearLog' = g.clearLog
    /\ RequestFrame(FiredLatest, FiredOld)
    /\ UNCHANGED <<config, paused, inputsUsed, loads, loadsStarted, destroyed>>

\* a frame callback after destroy() that requests the next frame all the same
FrameAfterDestroyLoops ==
    /\ pendingLatest \/ pendingOld > 0
    /\ destroyed
    /\ RequestFrame(FiredLatest, FiredOld)
    /\ UNCHANGED <<config, current, score, paused, infinityAction, tickQueue,
                   ticksQueued, inputsUsed, loads, loadsStarted,
                   destroyed, pieces, stack, grid, bag, lastRun, spawned, clearLog>>

\* a frame callback fires after destroy(): play() throws on the deleted
\* canvas before it reads the state, and requests no further frame
FrameAfterDestroy ==
    /\ pendingLatest \/ pendingOld > 0
    /\ destroyed
    /\ pendingLatest' = FiredLatest
    /\ pendingOld' = FiredOld
    /\ UNCHANGED <<config, current, score, paused, infinityAction, tickQueue,
                   ticksQueued, inputsUsed, frameCount, loads, loadsStarted,
                   destroyed, pieces, stack, grid, bag, lastRun, spawned, clearLog>>

(* ---------------- Game: load(), init(), create() ---------------- *)
InitGameKeepsPieces ==
    /\ tickQueue' = <<>>
    /\ score' = 0
    /\ pieces' = pieces
    /\ stack' = stack
    /\ grid' = {}
    /\ bag' = <<>>
    /\ spawned' = <<>>
    /\ clearLog' = NoClear

\* init(): fresh queue, score, board, bag, pieces and stack
InitGame ==
    /\ tickQueue' = <<>>
    /\ score' = 0
    /\ pieces' = <<>>
    /\ stack' = <<>>
    /\ grid' = {}
    /\ bag' = <<>>
    /\ spawned' = <<>>
    /\ clearLog' = NoClear

\* load(): init(), then the asset promise is in flight; after destroy()
\* init() throws on the deleted canvas before it resets anything
Load ==
    IF destroyed
    THEN UNCHANGED <<tickQueue, score, pieces, stack, grid, bag, loads,
                     spawned, clearLog>>
    ELSE InitGame /\ loads' = loads + 1

\* the asset promise resolves: create() sets 'ready' and calls play(), which
\* requests the next frame; after destroy() create() throws on the overlay
LoadDone ==
    /\ loads > 0
    /\ loads' = loads - 1
    /\ IF destroyed
       THEN UNCHANGED <<current, pendingLatest, pendingOld, frameCount>>
       ELSE current' = "ready" /\ RequestFrame(pendingLatest, pendingOld)
    /\ UNCHANGED <<config, score, paused, infinityAction, tickQueue,
                   ticksQueued, inputsUsed, loadsStarted, destroyed, pieces,
                   stack, grid, bag, lastRun, spawned, clearLog>>

\* the asset promise rejects: the error is logged, create() never runs
LoadFail ==
    /\ loads > 0
    /\ loads' = loads - 1
    /\ UNCHANGED <<config, current, score, paused, infinityAction, tickQueue,
                   ticksQueued, inputsUsed, frameCount, pendingLatest,
                   pendingOld, loadsStarted, destroyed, pieces, stack, grid,
                   bag, lastRun, spawned, clearLog>>

\* Koji.on('change') with the settings left as they are: cancelFrame(), load()
ConfigChange(lim) ==
    /\ inputsUsed < lim.inputs
    /\ inputsUsed' = inputsUsed + 1
    /\ loadsStarted < MaxLoads
    /\ loadsStarted' = loadsStarted + 1
    /\ pendingLatest' = FALSE
    /\ Load
    /\ UNCHANGED <<config, current, paused, infinityAction, ticksQueued,
                   frameCount, pendingOld, destroyed, lastRun>>

(* ---------------- Game: input handlers ---------------- *)
KeyCodes == {"ArrowUp", "ArrowLeft", "ArrowRight", "ArrowDown", "Space", "KeyA"}

keyRun(code) ==
    CASE code = "ArrowUp" -> "rotatePiece"
      [] code = "ArrowLeft" -> "shiftPieceLeft"
      [] code = "ArrowRight" -> "shiftPieceRight"
      [] OTHER -> "shiftPieceDown"

\* number of ticks the handler queues for the key in state 'play'; dropPiece
\* throws when there is no piece to drop
keyTicks(code) ==
    IF code = "KeyA" THEN 0
    ELSE IF code = "Space" THEN (IF canDrop THEN dropCount ELSE 0)
    ELSE 1

\* handleKeyboardInput('keydown', code) in state 'play'
KeyDownPlay(code, lim) ==
    /\ current = "play"
    /\ inputsUsed < lim.inputs
    /\ Len(tickQueue) < MaxQueue
    /\ ticksQueued + keyTicks(code) <= lim.ticks
    /\ inputsUsed' = inputsUsed + 1
    /\ infinityAction' = (modeInfinity \/ infinityAction)
    /\ tickQueue' = queueTicks(tickQueue, keyTicks(code), 0, keyRun(code),
                               ticksQueued)
    /\ ticksQueued' = ticksQueued + keyTicks(code)
    /\ UNCHANGED <<config, current, score, paused, frameCount, pendingLatest,
                   pendingOld, loads, loadsStarted, destroyed, pieces, stack,
                   grid, bag, lastRun, spawned, clearLog>>

\* handleKeyboardInput('keydown', code) in state 'over': reload
KeyDownOver ==
    /\ current = "over"
    /\ loadsStarted < MaxLoads
    /\ loadsStarted' = loadsStarted + 1
    /\ current' = "loading"
    /\ Load
    /\ UNCHANGED <<config, paused, infinityAction, ticksQueued, inputsUsed,
                   frameCount, pendingLatest, pendingOld, destroyed, lastRun>>

\* handleKeyboardInput('keydown', code) in state 'ready': start
KeyDownReady ==
    /\ current = "ready"
    /\ current' = "play"
    /\ UNCHANGED <<config, score, paused, infinityAction, tickQueue,
                   ticksQueued, inputsUsed, frameCount, pendingLatest,
                   pendingOld, loads, loadsStarted, destroyed, pieces, stack,
                   grid, bag, lastRun, spawned, clearLog>>

\* handleTap: a double tap queues a rotation, whatever the state
Tap(lim) ==
    /\ inputsUsed < lim.inputs
    /\ Len(tickQueue) < MaxQueue
    /\ ticksQueued + 1 <= lim.ticks
    /\ inputsUsed' = inputsUsed + 1
    /\ infinityAction' = (modeInfinity \/ infinityAction)
    /\ tickQueue' = queueTick(tickQueue, Tick(0, "rotatePiece", ticksQueued + 1))
    /\ ticksQueued' = ticksQueued + 1
    /\ UNCHANGED <<config, current, score, paused, frameCount, pendingLatest,
                   pendingOld, loads, loadsStarted, destroyed, pieces, stack,
                   grid, bag, lastRun, spawned, clearLog>>

SwipeDirections == {"left", "right", "down"}

swipeRun(dir) ==
    CASE dir = "left" -> "shiftPieceLeft"
      [] dir = "right" -> "shiftPieceRight"
      [] OTHER -> "shiftPieceDown"

swipeTicks(dir) ==
    IF dir = "down" THEN (IF canDrop THEN dropCount ELSE 0) ELSE 1

\* handleSwipeInput: touchstart, touchmove and the touchend that resolves the
\* direction, whatever the state
Swipe(dir, lim) ==
    /\ inputsUsed < lim.inputs
    /\ Len(tickQueue) < MaxQueue
    /\ ticksQueued + swipeTicks(dir) <= lim.ticks
    /\ inputsUsed' = inputsUsed + 1
    /\ infinityAction' = (modeInfinity \/ infinityAction)
    /\ tickQueue' = queueTicks(tickQueue, swipeTicks(dir), 0, swipeRun(dir),
                               ticksQueued)
    /\ ticksQueued' = ticksQueued + swipeTicks(dir)
    /\ UNCHANGED <<config, current, score, paused, frameCount, pendingLatest,
                   pendingOld, loads, loadsStarted, destroyed, pieces, stack,
                   grid, bag, lastRun, spawned, clearLog>>

ClickTargets == {"pause", "button", "mute"}

\* handleClicks(target); the overlay has left the page after destroy()
Click(target, lim) ==
    /\ ~destroyed
    /\ inputsUsed < lim.inputs
    /\ inputsUsed' = inputsUsed + 1
    /\ current # "loading"
    /\ LET pausing == target = "pause" /\ current = "play"
           afterButton == IF target = "button" THEN "play" ELSE current
       IN  /\ paused' = IF pausing THEN ~paused ELSE paused
           /\ IF pausing /\ ~paused
              THEN /\ pendingLatest' = FALSE
                   /\ UNCHANGED <<pendingOld, frameCount>>
              ELSE IF pausing
              THEN RequestFrame(pendingLatest, pendingOld)
              ELSE UNCHANGED <<pendingLatest, pendingOld, frameCount>>
           /\ current' = IF afterButton = "over" THEN "loading" ELSE afterButton
    /\ UNCHANGED <<config, score, infinityAction, tickQueue, ticksQueued,
                   loads, loadsStarted, destroyed, pieces, stack,
                   grid, bag, lastRun, spawned, clearLog>>

\* destroy(): state 'stop', overlay and canvases deleted
Destroy(lim) ==
    /\ ~destroyed
    /\ inputsUsed < lim.inputs
    /\ inputsUsed' = inputsUsed + 1
    /\ current' = "stop"
    /\ destroyed' = TRUE
    /\ UNCHANGED <<config, score, paused, infinityAction, tickQueue,
                   ticksQueued, frameCount, pendingLatest,
                   pendingOld, loads, loadsStarted, pieces, stack, grid, bag,
                   lastRun, spawned, clearLog>>

(* ---------------- specifications ---------------- *)
\* every handler and callback, short runs
FullLimits == Limits(MaxTicks, MaxInputs, MaxTicks)

Next ==
    \/ Frame(FullLimits)
    \/ FrameAfterDestroy
    \/ LoadDone
    \/ LoadFail
    \/ ConfigChange(FullLimits)
    \/ \E code \in KeyCodes : KeyDownPlay(code, FullLimits)
    \/ KeyDownOver
    \/ KeyDownReady
    \/ Tap(FullLimits)
    \/ \E dir \in SwipeDirections : Swipe(dir, FullLimits)
    \/ \E target \in ClickTargets : Click(target, FullLimits)
    \/ Destroy(FullLimits)

Spec == Init /\ [][Next]_vars

\* one game played with the keyboard, longer runs
PlayLimits == Limits(PlayMaxTicks, PlayMaxInputs, PlayMaxTicks)

PlayNext ==
    \/ Frame(PlayLimits)
    \/ LoadDone
    \/ KeyDownReady
    \/ \E code \in KeyCodes : KeyDownPlay(code, PlayLimits)

PlaySpec == Init /\ [][PlayNext]_vars

\* one game left to gravity on a tall board, a tick every frame and no lock
\* delay, until the second bag is opened
BagSettings == Settings(4, 13, 1, 0, FALSE)
BagLimits == Limits(BagMaxTicks, 0, BagMaxSpawns)

BagInit == InitWith(BagSettings)

BagNext ==
    \/ Frame(BagLimits)
    \/ LoadDone
    \/ KeyDownReady

BagSpec == BagInit /\ [][BagNext]_vars

\* one game on a board of 4 x 5 with a tick every second frame and no lock
\* delay, in which the player presses the keys of ClearKeys in this order,
\* at any time: they take the square to the right wall, stand the bar up
\* against the left wall and stand the piece of shape 1 up between them,
\* which fills the two bottom rows at once when the bag deals these three
\* shapes in this order
ClearSettings == Settings(4, 5, 2, 0, FALSE)
ClearLimits == Limits(ClearMaxTicks, ClearMaxInputs, ClearMaxSpawns)
ClearKeys == <<"ArrowRight", "ArrowRight", "ArrowUp", "ArrowLeft", "ArrowUp">>

ClearInit == InitWith(ClearSettings)

ClearNext ==
    \/ Frame(ClearLimits)
    \/ LoadDone
    \/ KeyDownReady
    \/ /\ inputsUsed < Len(ClearKeys)
       /\ KeyDownPlay(ClearKeys[inputsUsed + 1], ClearLimits)

ClearSpec == ClearInit /\ [][ClearNext]_vars

\* the game of ClearSpec in which the player, after the last key, may click
\* the pause button: pausing cancels the pending frame and resuming requests
\* one, so that two frame callbacks in a row can fall on the cadence
SettleLimits == Limits(ClearMaxTicks, ClearMaxInputs + 2, ClearMaxSpawns)

SettleNext ==
    \/ Frame(SettleLimits)
    \/ LoadDone
    \/ KeyDownReady
    \/ /\ inputsUsed < Len(ClearKeys)
       /\ KeyDownPlay(ClearKeys[inputsUsed + 1], SettleLimits)
    \/ /\ inputsUsed >= Len(ClearKeys)
       /\ Click("pause", SettleLimits)

SettleSpec == ClearInit /\ [][SettleNext]_vars

\* the game of ClearSettings in which the player presses only Space, and only
\* while the first piece is in play: every input tick in the queue was queued
\* by a drop of the first piece
DropNext ==
    \/ Frame(ClearLimits)
    \/ LoadDone
    \/ KeyDownReady
    \/ /\ Len(spawned) = 1
       /\ KeyDownPlay("Space", ClearLimits)

DropSpec == ClearInit /\ [][DropNext]_vars

\* the board of ClearSettings with a gravity tick queued in every frame; the
\* player presses keys only while the first piece is in play, and does not drop
StarveSettings == Settings(4, 5, 1, 0, FALSE)

StarveInit == InitWith(StarveSettings)

StarveNext ==
    \/ Frame(ClearLimits)
    \/ LoadDone
    \/ KeyDownReady
    \/ /\ Len(spawned) = 1
       /\ \E code \in KeyCodes \ {"Space"} : KeyDownPlay(code, ClearLimits)

StarveSpec == StarveInit /\ [][StarveNext]_vars

\* one game played with the keyboard with modeInfinity enabled
InfinitySettings == Settings(4, 4, 2, 1, TRUE)

InfinityInit == InitWith(InfinitySettings)

InfinityNext ==
    \/ Frame(PlayLimits)
    \/ LoadDone
    \/ KeyDownReady
    \/ \E code \in KeyCodes : KeyDownPlay(code, PlayLimits)

InfinitySpec == InfinityInit /\ [][InfinityNext]_vars

(* ---------------- a Piece on its own ---------------- *)
\* One piece, constructed for any shape on any board of at least 4 x 4, and
\* the calls Game makes on a piece, in any order and without Game's
\* legality tests: shift by one column or one row, rotate, and the
\* assignment placed = true.
PieceBoards ==
    {Settings(columns, rows, 1, 0, FALSE) :
        columns \in 4..PieceMaxColumns, rows \in 4..PieceMaxRows}

Shapes == 0..6

PieceInit ==
    \E cfg \in PieceBoards : \E shape \in Shapes :
        /\ config = cfg
        /\ current = "play"
        /\ score = 0
        /\ paused = FALSE
        /\ infinityAction = FALSE
        /\ tickQueue = <<>>
        /\ ticksQueued = 0
        /\ inputsUsed = 0
        /\ frameCount = 0
        /\ pendingLatest = FALSE
        /\ pendingOld = 0
        /\ loads = 0
        /\ loadsStarted = 1
        /\ destroyed = FALSE
        /\ pieces = <<NewPiece(shape)>>
        /\ stack = <<>>
        /\ grid = {}
        /\ bag = <<>>
        /\ lastRun = <<>>
        /\ spawned = <<shape>>
        /\ clearLog = NoClear

PieceUnchanged ==
    UNCHANGED <<config, current, score, paused, infinityAction, tickQueue,
                ticksQueued, inputsUsed, frameCount, pendingLatest, pendingOld,
                loads, loadsStarted, destroyed, stack, grid, bag, spawned,
                clearLog>>

\* the latest four entries of calls
LatestFour(calls) ==
    IF Len(calls) <= 4 THEN calls ELSE SubSeq(calls, Len(calls) - 3, Len(calls))

\* piece.shift({ x: dx, y: dy }); rows grow downwards and Game never shifts
\* a piece whose box is on the bottom row further down
CallShift(dx, dy) ==
    /\ pieces[1].box.bottom + dy <= Rows - 1
    /\ pieces' = <<PieceShift(pieces[1], dx, dy)>>
    /\ lastRun' = <<[run |-> "shift", piece |-> pieces[1], x |-> dx, y |-> dy]>>
    /\ PieceUnchanged

isRotate(call) == call.run = "rotate"

\* piece.rotate()
CallRotate ==
    /\ pieces' = <<PieceRotate(pieces[1])>>
    /\ lastRun' = LatestFour(Append(SelectSeq(lastRun, isRotate),
                                    [run |-> "rotate", piece |-> pieces[1]]))
    /\ PieceUnchanged

\* piece.placed = true
CallPlace ==
    /\ ~pieces[1].placed
    /\ pieces' = <<[pieces[1] EXCEPT !.placed = TRUE]>>
    /\ lastRun' = <<>>
    /\ PieceUnchanged

PieceNext ==
    \/ \E dx \in {-1, 0, 1} : \E dy \in {0, 1} : CallShift(dx, dy)
    \/ CallRotate
    \/ CallPlace

PieceSpec == PieceInit /\ [][PieceNext]_vars

(* ---------------- claims: the tick scheduler ---------------- *)
\* a step of the frame callback in state 'play' that dequeues a tick
Dequeues == current = "play" /\ Len(tickQueue) > 0 /\ Frame(FullLimits)

\* the ticks of queue that are not in ran, in the order of queue
Others(queue, ran) ==
    LET notRan(t) == \A k \in 1..Len(ran) : ran[k] # t
    IN  SelectSeq(queue, notRan)

\* the ticks of queue that were queued up to stamp id
UpTo(queue, id) ==
    LET old(t) == t.id <= id
    IN  SelectSeq(queue, old)

\* C1: whenever the frame callback dequeues a tick, no entry of the queue it
\* dequeues from has a numeric priority above that of the tick it executes.
C1_HighestPriorityFirst ==
    [][Dequeues =>
         /\ Len(lastRun') = 1
         /\ \A k \in 1..Len(tickQueue) :
               tickQueue[k].priority <= lastRun'[1].priority]_vars

\* C1 witness: a gravity tick was executed while an input tick of lower
\* priority, queued before it, stays in the queue.
C1_Witness ==
    /\ Len(lastRun) = 1
    /\ \E k \in 1..Len(tickQueue) :
          /\ tickQueue[k].priority < lastRun[1].priority
          /\ tickQueue[k].id < lastRun[1].id

\* C2 (as stated): among the queued ticks of the executed tick's priority,
\* the executed one is the most recently enqueued.
C2_MostRecentFirst ==
    [][Dequeues =>
         \A k \in 1..Len(tickQueue) :
            tickQueue[k].priority = lastRun'[1].priority
               => tickQueue[k].id <= lastRun'[1].id]_vars

\* C2 (amended): among the queued ticks of the executed tick's priority,
\* the executed one is the least recently enqueued.
C2_LeastRecentFirst ==
    [][Dequeues =>
         \A k \in 1..Len(tickQueue) :
            tickQueue[k].priority = lastRun'[1].priority
               => tickQueue[k].id >= lastRun'[1].id]_vars

\* C2 witness: an input tick was executed while a later input tick stays in
\* the queue; the gravity tick queued after both by the same frame shows that
\* the later input was in the queue when the earlier one was taken.
C2_Witness ==
    /\ Len(lastRun) = 1
    /\ lastRun[1].priority = 0
    /\ \E k, j \in 1..Len(tickQueue) :
          /\ tickQueue[k].priority = 0
          /\ tickQueue[k].id > lastRun[1].id
          /\ tickQueue[j].priority = 1
          /\ tickQueue[j].id > tickQueue[k].id

\* C3: a frame callback in state 'play' executes at most one queued tick, and
\* the ticks it does not execute are the queue's entries afterwards, unchanged
\* and in order, before the ticks the same frame queues.
C3_OneTickPerFrame ==
    [][current = "play" /\ Frame(FullLimits) =>
         /\ Len(lastRun') <= 1
         /\ \A k \in 1..Len(lastRun') :
               \E j \in 1..Len(tickQueue) : tickQueue[j] = lastRun'[k]
         /\ UpTo(tickQueue', ticksQueued) = Others(tickQueue, lastRun')]_vars

\* C3 witness: one tick was executed and a tick queued before it is still in
\* the queue of the running game.
C3_Witness ==
    /\ current = "play"
    /\ Len(lastRun) = 1
    /\ \E k \in 1..Len(tickQueue) : tickQueue[k].id < lastRun[1].id

(* ---------------- claims: piece, grid, stack ---------------- *)
\* C4: whatever inputs were queued and run, the bounding box of every piece
\* in play has left >= 0 and right <= columns - 1.
C4_BoxInsideBoard ==
    \A k \in 1..Len(pieces) :
        pieces[k].box.left >= 0 /\ pieces[k].box.right <= Columns - 1

\* C4 witness: a shift-left tick was run on a piece that had already fallen,
\* and the piece stands at the left wall.
C4_Witness ==
    /\ Len(lastRun) = 1
    /\ lastRun[1].run = "shiftPieceLeft"
    /\ \E k \in 1..Len(pieces) :
          pieces[k].box.left = 0 /\ pieces[k].box.top > 0

\* the cells the stack blocks occupy
StackCells == {stack[b].cell : b \in 1..Len(stack)}

\* C5 (as stated): between frame callbacks the grid holds true at a cell if
\* and only if a stack block occupies the cell.
C5_GridIffStack == grid = StackCells

\* C6 (as stated): a frame callback in state 'play' changes the state to
\* 'over' if and only if the stack holds a block in row 0 when it starts.
C6_OverIffTopRow ==
    [][current = "play" /\ Frame(PlayLimits) =>
         ((current' = "over") <=> (\E c \in StackCells : c.y = 0))]_vars

\* the stack is exactly one full row: columns blocks, pairwise distinct x,
\* all in row r
OnlyFullRow(r) ==
    /\ Len(stack) = Columns
    /\ \A b \in 1..Len(stack) : stack[b].cell.y = r
    /\ \A a, b \in 1..Len(stack) : a # b => stack[a].cell.x # stack[b].cell.x

\* C7: when the stack is exactly one full row r at the start of a frame
\* callback that does the scheduled tick, the frame removes every block of
\* the row from the stack and adds exactly 100 to the score.
C7_RowClear ==
    [][(/\ current = "play"
        /\ frameCount % TickRate = 0
        /\ \E r \in 0..(Rows - 1) : OnlyFullRow(r)
        /\ Frame(PlayLimits))
         => (/\ score' = score + 100
             /\ \A b \in 1..Len(stack') : stack'[b].cell \notin StackCells)]_vars

\* C7 witness: the latest frame ran no tick and cleared a row whose settle
\* tick is still queued; the clear left the stack empty and the score at 100.
C7_Witness ==
    /\ lastRun = <<>>
    /\ clearLog.row >= 0
    /\ clearLog.stack = <<>>
    /\ \E k \in 1..Len(tickQueue) : tickQueue[k].id = clearLog.settle
    /\ stack = <<>>
    /\ score = 100

\* the latest frame ran the settle tick queued by the latest line clear
SettleRan == Len(lastRun) = 1 /\ lastRun[1].id = clearLog.settle

\* C8: once the settle tick queued by the clear of row r has run, every block
\* the clear left in the stack above row r is one row lower, and every block
\* it left below row r is where it was.
C8_GravityCascade ==
    SettleRan =>
        /\ Len(stack) >= Len(clearLog.stack)
        /\ \A b \in 1..Len(clearLog.stack) :
              stack[b].cell =
                 IF clearLog.stack[b].cell.y < clearLog.row
                 THEN Cell(clearLog.stack[b].cell.x, clearLog.stack[b].cell.y + 1)
                 ELSE clearLog.stack[b].cell

\* C8 witness: the settle tick of a clear has run and the clear had left a
\* block above the cleared row.
C8_Witness ==
    /\ SettleRan
    /\ \E b \in 1..Len(clearLog.stack) :
          clearLog.stack[b].cell.y < clearLog.row

(* ---------------- claims: the bag ---------------- *)
\* the shapes of the n-th block of 7 spawns, as far as they were dispensed
BagBlock(n) ==
    {k \in 1..Len(spawned) : (k - 1) \div Len(FullBag) = n}

\* C9: from the empty bag of a new game on, within every block of 7
\* consecutive spawns no shape is dispensed twice, and a complete block holds
\* each of the shapes 0..6.
C9_BagFairness ==
    \A n \in 0..(Len(spawned) \div Len(FullBag)) :
        /\ \A j, k \in BagBlock(n) : j # k => spawned[j] # spawned[k]
        /\ Cardinality(BagBlock(n)) = Len(FullBag) =>
              {spawned[k] : k \in BagBlock(n)} = 0..6

\* C9 witness: a first block of 7 spawns is complete and the second bag has
\* dispensed a shape.
C9_Witness == Len(spawned) > Len(FullBag)

(* ---------------- claims: the state machine ---------------- *)
Transitions ==
    {<<"loading", "ready">>, <<"ready", "play">>, <<"play", "over">>,
     <<"over", "loading">>}

\* C10 (as stated): the state changes only along loading -> ready,
\* ready -> play, play -> over, over -> loading, or into stop.
C10_StateMachine ==
    [][\/ current' = current
       \/ current' = "stop"
       \/ <<current, current'>> \in Transitions]_vars

(* ---------------- claims: spawn and lock delay ---------------- *)
\* C11 (as stated): at the end of every frame callback executed in state
\* 'play' exactly one piece that is not placed is in this.pieces.
C11_OnePieceInPlay ==
    [][current = "play" /\ Frame(PlayLimits) =>
         Len(SelectSeq(pieces', notPlaced)) = 1]_vars

\* the pieces in play
Active == SelectSeq(pieces, notPlaced)

\* the piece can no longer move down: it stands on the bottom row or a stack
\* block is directly below one of its blocks
Grounded(piece) ==
    \/ piece.box.bottom = Rows - 1
    \/ \E i \in 1..Len(piece.body) :
          Cell(piece.body[i].cell.x, piece.body[i].cell.y + 1) \in StackCells

\* a frame callback of the keyboard game runs a downward tick on the one
\* piece in play, which is grounded, with no infinity action pending
GroundedDownTick ==
    /\ current = "play"
    /\ Len(tickQueue) > 0
    /\ Len(Active) = 1
    /\ Grounded(Active[1])
    /\ ~infinityAction
    /\ Frame(PlayLimits)
    /\ lastRun'[1].run = "shiftPieceDown"

\* the frame has merged the piece in play into the stack and spawned the next
PlacedInFrame == Len(spawned') = Len(spawned) + 1

\* C12 (as stated): a grounded piece is placed by the lockDelayTicks-th
\* downward tick that finds it grounded (preplaceTick counts the earlier ones).
C12_LockAfterDelay ==
    [][GroundedDownTick /\ Active[1].preplaceTick = LockDelayTicks - 1
         => PlacedInFrame]_vars

\* C12 (amended): a downward tick that finds the piece grounded places it if
\* and only if preplaceTick has reached lockDelayTicks, and otherwise raises
\* preplaceTick by one and leaves the piece where it is; a piece grounded for
\* the first time is placed by the (lockDelayTicks + 1)-th such tick.
C12_LockAfterDelayPlusOne ==
    [][GroundedDownTick =>
         IF Active[1].preplaceTick >= LockDelayTicks
         THEN PlacedInFrame
         ELSE /\ ~PlacedInFrame
              /\ Len(pieces') = 1
              /\ pieces'[1] = [Active[1] EXCEPT
                                  !.preplaceTick = Active[1].preplaceTick + 1]]_vars

\* C12 witness: a downward tick has found the piece grounded for the
\* lockDelayTicks-th time and the piece is still in play.
C12_Witness ==
    /\ Len(lastRun) = 1
    /\ lastRun[1].run = "shiftPieceDown"
    /\ Len(Active) = 1
    /\ Grounded(Active[1])
    /\ LockDelayTicks > 0
    /\ Active[1].preplaceTick = LockDelayTicks

(* ---------------- claims: the Piece ---------------- *)
\* the cells of the blocks of piece, in body order
cellsOf(piece) == [i \in 1..Len(piece.body) |-> piece.body[i].cell]

\* C13: four rotate() calls in a row return every block of the piece to the
\* cell it had before the first of them, and none of the four moves the
\* pivot block body[0], whatever the shape and the position.
C13_RotationOrderFour ==
    /\ \A k \in 1..Len(lastRun) :
          lastRun[k].run = "rotate" =>
              lastRun[k].piece.body[1].cell = pieces[1].body[1].cell
    /\ (Len(lastRun) = 4 /\ lastRun[1].run = "rotate") =>
          cellsOf(pieces[1]) = cellsOf(lastRun[1].piece)

\* C13 witness: a piece shifted away from where it was constructed has been
\* rotated four times in a row, and one rotation did move its blocks.
C13_Witness ==
    /\ Len(lastRun) = 4
    /\ lastRun[1].run = "rotate"
    /\ pieces[1].body[1].cell.y > 1
    /\ pieces[1].body[1].cell.x > 1
    /\ cellsOf(lastRun[2].piece) # cellsOf(lastRun[1].piece)
    /\ cellsOf(lastRun[3].piece) # cellsOf(lastRun[1].piece)

\* box lies inside the board
boxInside(box) ==
    /\ 0 <= box.left
    /\ box.right <= Columns - 1
    /\ 0 <= box.top
    /\ box.bottom <= Rows - 1

\* C14: on every board of at least 4 columns and 4 rows, the box of a newly
\* constructed piece of any of the shapes 0..6 lies inside the board.
C14_SpawnInsideBoard ==
    (Columns >= 4 /\ Rows >= 4) =>
        \A shape \in Shapes : boxInside(NewPiece(shape).box)

\* C14 witness: the bar has just been constructed on a board with an odd
\* number of columns, where the centre is rounded up, and touches the right
\* wall.
C14_Witness ==
    /\ Columns % 2 = 1
    /\ spawned = <<0>>
    /\ pieces = <<NewPiece(0)>>
    /\ pieces[1].box.left = 1
    /\ pieces[1].box.right = Columns - 1

\* the least and greatest coordinates of the cells of body
extents(body) ==
    LET xs == {body[i].cell.x : i \in 1..Len(body)}
        ys == {body[i].cell.y : i \in 1..Len(body)}
    IN  [top |-> CHOOSE y \in ys : \A z \in ys : y <= z,
         bottom |-> CHOOSE y \in ys : \A z \in ys : y >= z,
         right |-> CHOOSE x \in xs : \A z \in xs : x >= z,
         left |-> CHOOSE x \in xs : \A z \in xs : x <= z]

\* C15: the box of every piece of the game is the least and greatest row and
\* column of the current cells of its body, after construction and after
\* every shift and rotation, accepted or rejected.
C15_BoxIsExtents ==
    \A k \in 1..Len(pieces) : pieces[k].box = extents(pieces[k].body)

\* C15 witness: a rotation tick has just turned a piece that had moved down,
\* so that its box is taller than any shape is when constructed.
C15_Witness ==
    /\ Len(lastRun) = 1
    /\ lastRun[1].run = "rotatePiece"
    /\ Len(pieces) = 1
    /\ pieces[1].box.top > 0
    /\ pieces[1].box.bottom - pieces[1].box.top >= 2
    /\ pieces[1].box = extents(pieces[1].body)

(* ---------------- claims: clearing rows ---------------- *)
\* a cadence frame of the scripted game that finds at least two full rows in
\* the stack and runs a tick that leaves the stack alone (it merges no piece
\* and is not the settle tick)
CadenceTwoFull ==
    /\ current = "play"
    /\ frameCount % TickRate = 0
    /\ Cardinality(fullRowsOf(stack)) >= 2
    /\ Frame(ClearLimits)
    /\ Len(spawned') = Len(spawned)
    /\ \A k \in 1..Len(lastRun') : lastRun'[k].run # "shiftStackDown"

\* C16: when several rows are full at a cadence tick, the blocks of the first
\* full row (the one nearest the top) and no others leave the stack, every
\* other full row is still full afterwards, and the score rises by 100; no
\* frame of the game raises the score by more than 100 or removes more than
\* one row of blocks.
C16_OneRowPerCadence ==
    /\ [][CadenceTwoFull =>
            /\ score' = score + 100
            /\ Len(stack') = Len(stack) - Columns
            /\ rowCount(stack', firstFullRow(stack)) = 0
            /\ fullRowsOf(stack') = fullRowsOf(stack) \ {firstFullRow(stack)}
            /\ clearLog'.row = firstFullRow(stack)]_vars
    /\ [][(current = "play" /\ Frame(ClearLimits)) =>
            /\ score' \in {score, score + 100}
            /\ Len(stack') >= Len(stack) - Columns]_vars

\* C16 witness: a cadence frame that ran no tick has just cleared the upper of
\* two rows that were full together, for 100 points, and the lower one is
\* still in the stack, full.
C16_Witness ==
    /\ clearLog.row >= 0
    /\ stack = clearLog.stack
    /\ score = 100
    /\ fullRowsOf(stack) = {clearLog.row + 1}
    /\ lastRun = <<>>
    /\ frameCount = 1
    /\ \E k \in 1..Len(tickQueue) : tickQueue[k].id = clearLog.settle

\* C17: no two blocks of the stack are in the same cell.
C17_StackCellsDistinct ==
    \A a, b \in 1..Len(stack) : stack[a].cell = stack[b].cell => a = b

\* C18: a shift() call on a placed piece, or one whose box would leave the
\* board on the left or on the right, changes no block cell and not the box;
\* every other call moves each of the 4 blocks by exactly the requested
\* delta.
C18_ShiftAllOrNothing ==
    (Len(lastRun) = 1 /\ lastRun[1].run = "shift") =>
        LET before == lastRun[1].piece
            dx == lastRun[1].x
            dy == lastRun[1].y
        IN  IF \/ before.placed
               \/ before.box.left + dx < 0
               \/ before.box.right + dx > Columns - 1
            THEN pieces[1] = before
            ELSE /\ Len(pieces[1].body) = 4
                 /\ \A i \in 1..4 :
                       pieces[1].body[i].cell =
                           Cell(before.body[i].cell.x + dx,
                                before.body[i].cell.y + dy)

\* C18 witness: a diagonal shift towards the wall it touches has been
\* rejected whole for a piece that is not placed.
C18_Witness ==
    /\ Len(lastRun) = 1
    /\ lastRun[1].run = "shift"
    /\ lastRun[1].x = 1
    /\ lastRun[1].y = 1
    /\ ~pieces[1].placed
    /\ pieces[1].box.right = Columns - 1
    /\ pieces[1] = lastRun[1].piece

(* ---------------- claims: rotation and infinity mode ---------------- *)
\* a cell of cells is outside the board
offBoard(cells) ==
    \E i \in 1..Len(cells) :
        \/ cells[i].x < 0 \/ cells[i].x >= Columns
        \/ cells[i].y < 0 \/ cells[i].y >= Rows

\* a cell of cells is the cell of a stack block
onStack(cells) == \E i \in 1..Len(cells) : cells[i] \in StackCells

\* a frame callback of the keyboard game runs a rotation tick on the one
\* piece in play
RotationTick ==
    /\ current = "play"
    /\ Len(tickQueue) > 0
    /\ Len(pieces) = 1
    /\ Frame(PlayLimits)
    /\ lastRun'[1].run = "rotatePiece"

\* C19: a rotation tick leaves the piece as it is when a cell of the rotated
\* layout is the cell of a stack block or is outside the board, and otherwise
\* sets the cells of the piece to the cells rotatedCells() returned.
C19_RotationLegality ==
    [][RotationTick =>
         IF onStack(rotatedCells(pieces[1])) \/ offBoard(rotatedCells(pieces[1]))
         THEN pieces' = pieces
         ELSE /\ Len(pieces') = 1
              /\ cellsOf(pieces'[1]) = rotatedCells(pieces[1])]_vars

\* C19 witness: a rotation tick has just left the piece as it was because the
\* rotated layout, all of it on the board, meets a stack block.
C19_Witness ==
    /\ Len(lastRun) = 1
    /\ lastRun[1].run = "rotatePiece"
    /\ Len(pieces) = 1
    /\ ~offBoard(rotatedCells(pieces[1]))
    /\ onStack(rotatedCells(pieces[1]))
    /\ ~onStack(cellsOf(pieces[1]))

\* a frame callback of the game with modeInfinity enabled runs a horizontal
\* move or a rotation tick that moves the blocks of the one piece in play,
\* which is grounded
GroundedMove ==
    /\ current = "play"
    /\ modeInfinity
    /\ Len(tickQueue) > 0
    /\ Len(pieces) = 1
    /\ Grounded(pieces[1])
    /\ Frame(PlayLimits)
    /\ lastRun'[1].run \in {"shiftPieceLeft", "shiftPieceRight", "rotatePiece"}
    /\ Len(pieces') = 1
    /\ cellsOf(pieces'[1]) # cellsOf(pieces[1])

\* C20 (as stated, read in the code's favour): with modeInfinity enabled, once
\* a horizontal move or a rotation has been performed on a grounded piece,
\* the preplaceTick of the piece is 0, or infinityAction is set so that the
\* next downward tick that finds the piece grounded sets it to 0.
C20_GroundedMoveResets ==
    [][GroundedMove =>
         pieces'[1].preplaceTick = 0 \/ infinityAction']_vars

(* ---------------- claims: bounded lock delay ---------------- *)
\* a frame callback of the keyboard game runs a downward tick that does not
\* move the one piece in play down: the piece is merged or keeps its cells
StuckDownTick ==
    /\ current = "play"
    /\ Len(tickQueue) > 0
    /\ Len(pieces) = 1
    /\ Frame(PlayLimits)
    /\ lastRun'[1].run = "shiftPieceDown"
    /\ \/ PlacedInFrame
       \/ /\ Len(pieces') = 1
          /\ cellsOf(pieces'[1]) = cellsOf(pieces[1])

\* C21: with modeInfinity disabled no step of the game, input or frame,
\* lowers the preplaceTick of the piece in play, and every downward tick on
\* which the piece cannot move down either raises it by one or, once it has
\* reached lockDelayTicks, places the piece; so a piece is placed by the
\* (lockDelayTicks + 1)-th such tick at the latest.
C21_BoundedLockDelay ==
    /\ [][(Len(pieces) = 1 /\ Len(pieces') = 1 /\ spawned' = spawned) =>
             pieces'[1].preplaceTick >= pieces[1].preplaceTick]_vars
    /\ [][StuckDownTick =>
             IF pieces[1].preplaceTick >= LockDelayTicks
             THEN PlacedInFrame
             ELSE /\ ~PlacedInFrame
                  /\ pieces'[1].preplaceTick = pieces[1].preplaceTick + 1]_vars

\* C21 witness: the player has pressed keys during the fall of the first
\* piece, and a downward tick queued by a key has found it with preplaceTick
\* at lockDelayTicks and placed it; the second piece is in play.
C21_Witness ==
    /\ inputsUsed = PlayMaxInputs
    /\ Len(lastRun) = 1
    /\ lastRun[1].run = "shiftPieceDown"
    /\ lastRun[1].priority = 0
    /\ Len(spawned) = 2
    /\ Len(stack) = 4
    /\ Len(pieces) = 1
    /\ pieces[1].preplaceTick = 0

(* ---------------- claims: the game loop ---------------- *)
\* number of frame callbacks requested and neither fired nor cancelled
PendingFrames == pendingOld + (IF pendingLatest THEN 1 ELSE 0)

\* C22: at most one frame callback is pending at any time.
C22_OneLoop == PendingFrames <= 1

\* C23: while paused is true no frame callback is pending, so none runs, and
\* pieces, stack, grid and score stay as they are; the pause() that sets
\* paused back to false leaves exactly one frame callback pending.
C23_PauseFreezes ==
    /\ [][paused => ~Frame(FullLimits)]_vars
    /\ [][(paused /\ paused') => UNCHANGED <<pieces, stack, grid, score>>]_vars
    /\ [][(paused /\ ~paused') => PendingFrames' = 1]_vars

\* C24: once destroy() has set the state to 'stop', the state stays 'stop'
\* whatever event arrives, no frame is requested (frame.count keeps its value
\* and the number of pending callbacks only falls) and no tick is executed
\* (pieces, stack, grid, score and the record of the ticks run stay as they
\* are).
C24_StopIsTerminal ==
    [][current = "stop" =>
         /\ current' = "stop"
         /\ frameCount' = frameCount
         /\ PendingFrames' <= PendingFrames
         /\ UNCHANGED <<pieces, stack, grid, score, lastRun>>]_vars

\* C24 witness: after destroy() the frame callback that was pending has
\* fired, and a tick queued by a touch event is still waiting in the queue.
C24_Witness ==
    /\ current = "stop"
    /\ destroyed
    /\ PendingFrames = 0
    /\ frameCount > 0
    /\ inputsUsed = MaxInputs
    /\ Len(tickQueue) > 0

(* ---------------- claims: gravity and input ticks ---------------- *)
\* the gravity tick play() queues on the cadence
isGravity(tick) == tick.priority = 1 /\ tick.run = "shiftPieceDown"

\* a tick queued by a key, a tap or a swipe
isInput(tick) == tick.priority = 0

\* C25: whenever a gravity tick and a player-input tick are both queued, the
\* tick the frame callback runs is a player-input tick.
C25_InputBeforeGravity ==
    [][(/\ current = "play"
        /\ \E k \in 1..Len(tickQueue) : isGravity(tickQueue[k])
        /\ \E k \in 1..Len(tickQueue) : isInput(tickQueue[k])
        /\ Frame(PlayLimits))
         => isInput(lastRun'[1])]_vars

(* ---------------- claims: gravity after a clear ---------------- *)
\* a frame callback clears a row after running a tick, if any, that is not a
\* settle tick: the blocks that were in the stack before the frame are as
\* they were when the row is cleared
ClearWithoutSettle(lim) ==
    /\ current = "play"
    /\ Frame(lim)
    /\ score' = score + 100
    /\ \A k \in 1..Len(lastRun') : lastRun'[k].run # "shiftStackDown"

\* C26: a block is moved down once for every cleared row that was below it.
\* The settle tick moves a block by one row if it is marked unsupported,
\* whatever the number of clears that marked it, so the claim requires that
\* no row is cleared below a block that is still marked by an earlier clear.
C26_OneSettlePerClear ==
    [][ClearWithoutSettle(SettleLimits) =>
         \A b \in 1..Len(stack) :
            stack[b].unsupported => stack[b].cell.y >= clearLog'.row]_vars


(* ---------------- claims: the bag draw ---------------- *)
Remaining ==
    IF Len(bag) < 1 THEN {FullBag[k] : k \in 1..Len(FullBag)}
    ELSE {bag[k] : k \in 1..Len(bag)}

SpawnOf(shape) == Frame(BagLimits) /\ spawned' = Append(spawned, shape)

\* C27: whenever the next frame can spawn a piece, it can spawn every shape that
\* remains in the bag (the full bag when the bag is empty).
C27_AnyRemainingShape ==
    (\E shape \in 0..6 : ENABLED SpawnOf(shape)) =>
        \A shape \in Remaining : ENABLED SpawnOf(shape)

(* ---------------- claims: game over ---------------- *)
\* C28: the frame in which the state becomes over runs no tick and leaves stack, pieces
\* and score as they were, and so does every step that starts and ends in state over.
C28_OverFreezes ==
    [][(current' = "over" /\ current \in {"play", "over"}) =>
          /\ UNCHANGED <<stack, pieces, score>>
          /\ Frame(PlayLimits) => lastRun' = <<>>]_vars

\* the later frames alone: a frame that starts in state over runs no tick and changes
\* nothing of the simulation
OverFramesFrozen ==
    [][current = "over" =>
          /\ UNCHANGED <<stack, pieces, score, grid, tickQueue, bag>>
          /\ Frame(PlayLimits) => lastRun' = <<>>]_vars

(* ---------------- claims: who modifies the simulation ---------------- *)
SimChanged == <<pieces, stack, grid, score>>' # <<pieces, stack, grid, score>>

SimReset == pieces' = <<>> /\ stack' = <<>> /\ grid' = {} /\ score' = 0

\* C29 (as stated): pieces, stack, grid and score change only in a step of the frame
\* callback.
C29_OnlyFrameModifies ==
    [][SimChanged => Frame(FullLimits)]_vars

\* C29 (amended): pieces, stack, grid and score change only in a step of the frame
\* callback, or are reset to their initial values by a handler that reloads the game
\* (a key in state over, a configuration change); the other handlers leave them alone.
C29_FrameOrReload ==
    [][SimChanged =>
          \/ Frame(FullLimits)
          \/ SimReset /\ (KeyDownOver \/ ConfigChange(FullLimits))]_vars

\* C29 witness: a reload has emptied a game in which a tick had run
C29_Witness ==
    /\ loadsStarted = MaxLoads
    /\ lastRun # <<>>
    /\ pieces = <<>> /\ stack = <<>> /\ grid = {} /\ score = 0

(* ---------------- claims: ownership of blocks ---------------- *)
\* a frame in play that places the piece in play
PlacingFrame(lim) ==
    /\ current = "play" /\ Len(pieces) = 1
    /\ Frame(lim)
    /\ PlacedInFrame

\* the stack with the body of the piece in play appended once
Merged == stack \o pieces[1].body

\* C30: no placed piece is left among the pieces; the frame that places a piece appends
\* its 4 blocks to the stack once, before any row is cleared, and replaces the piece by
\* a new one; in every other step the stack gains no block.
C30_OwnershipTransfer ==
    /\ [][\A k \in 1..Len(pieces') : ~pieces'[k].placed]_vars
    /\ [][PlacingFrame(SettleLimits) =>
            /\ Len(pieces[1].body) = 4
            /\ pieces' = <<NewPiece(spawned'[Len(spawned')])>>
            /\ stack' = IF score' = score THEN Merged
                        ELSE clearRow(Merged, firstFullRow(Merged))]_vars
    /\ [][Len(stack') > Len(stack) => PlacingFrame(SettleLimits)]_vars

\* C30 witness: a frame has run a gravity tick that placed a piece and has then cleared
\* a row (the gravity and settle ticks it queued are both waiting): the stack holds what
\* the clear left and a new piece stands at the spawn position
C30_Witness ==
    /\ score > 0
    /\ Len(lastRun) = 1 /\ lastRun[1].run = "shiftPieceDown"
    /\ clearLog.settle = ticksQueued
    /\ \E k \in 1..Len(tickQueue) : tickQueue[k].id = ticksQueued
    /\ \E k \in 1..Len(tickQueue) : tickQueue[k].id = ticksQueued - 1
    /\ stack = clearLog.stack
    /\ Len(spawned) > 2 /\ Len(stack) >= 4
    /\ pieces = <<NewPiece(spawned[Len(spawned)])>>


(* ---------------- claims: the piece and the stack ---------------- *)
\* C31: no block of a piece in play is in the cell of a stack block.
C31_PieceOffStack ==
    \A k \in 1..Len(pieces) : ~onStack(cellsOf(pieces[k]))

(* ---------------- claims: what a line clear removes ---------------- *)
\* the stack as the cadence block of the frame finds it: after the tick of the frame, if
\* one is queued, and the merge of the piece it placed
StackAtCadence ==
    IF Len(tickQueue) > 0 THEN tickStep(startStep(Game), 1).stack ELSE stack

rowCovered(blocks, y) ==
    \A x \in 0..(Columns - 1) : \E b \in 1..Len(blocks) : blocks[b].cell = Cell(x, y)

ClearingFrame(lim) == current = "play" /\ Frame(lim) /\ score' = score + 100

\* C32: a frame removes row r from the stack only if the stack, as the line-clear
\* detection of that frame finds it, has a block in each of the columns of row r.
C32_ClearedRowCovered ==
    [][ClearingFrame(ClearLimits) => rowCovered(StackAtCadence, clearLog'.row)]_vars

(* ---------------- claims: the ticks of a drop ---------------- *)
\* a frame in play runs an input tick while a piece dealt after the first is in play
LateDropTick ==
    /\ current = "play"
    /\ Len(spawned) > 1 /\ Len(pieces) = 1
    /\ \E k \in 1..Len(tickQueue) : isInput(tickQueue[k])
    /\ Frame(ClearLimits)
    /\ isInput(lastRun'[1])

\* C33: the down-shift ticks queued by the drops of the first piece leave every later
\* piece as it is: such a tick does not move it, advance its lock counter or place it.
C33_DropTicksOwnPiece ==
    [][LateDropTick => /\ ~PlacedInFrame
                       /\ pieces' = pieces]_vars

(* ---------------- claims: blocks stay on the board ---------------- *)
onBoard(cell) == 0 <= cell.x /\ cell.x <= Columns - 1 /\ 0 <= cell.y /\ cell.y <= Rows - 1

\* C34: every block of a piece in play and every block of the stack is in a cell of the
\* board.
C34_BlocksOnBoard ==
    /\ \A k \in 1..Len(pieces) : \A i \in 1..Len(pieces[k].body) :
            onBoard(pieces[k].body[i].cell)
    /\ \A b \in 1..Len(stack) : onBoard(stack[b].cell)

\* C34 witness: the settle tick has just moved the stack after a line clear, the stack
\* has a block on the floor and the piece in play stands against a side wall
C34_Witness ==
    /\ Len(lastRun) = 1 /\ lastRun[1].run = "shiftStackDown"
    /\ \E b \in 1..Len(stack) : stack[b].cell.y = Rows - 1
    /\ Len(pieces) = 1
    /\ pieces[1].box.left = 0 \/ pieces[1].box.right = Columns - 1

(* ---------------- claims: the drop input ---------------- *)
\* C35: in every state in which the Space key reaches dropPiece (state play) and in
\* every state in which a downward swipe does (any state), exactly one piece that is
\* not placed is in play.
C35_DropHasPiece ==
    /\ (ENABLED KeyDownPlay("Space", FullLimits)) => Len(Active) = 1
    /\ (ENABLED Swipe("down", FullLimits)) => Len(Active) = 1

(* ---------------- claims: every piece is placed ---------------- *)
\* what is left of the fall of a piece: the rows below its pivot block body[0], which
\* no rotation moves, and the grounded ticks that remain before it is placed
Remains(piece) ==
    (Rows - 1 - piece.body[1].cell.y) + (LockDelayTicks + 1 - piece.preplaceTick)

OldestGravity ==
    CHOOSE t \in {tickQueue[k] : k \in 1..Len(tickQueue)} :
        /\ t.priority = 1
        /\ \A k \in 1..Len(tickQueue) : tickQueue[k].priority = 1 => t.id <= tickQueue[k].id

\* C36, in finite form, for a game with modeInfinity disabled: (1) a frame in play that
\* runs a down-shift tick on the piece places it or lowers what remains of its fall, (2) no
\* other step raises what remains, (3) every cadence frame in play queues a gravity tick,
\* (4) a frame in play with a priority 1 tick in the queue runs the oldest of them, and
\* (5) the frame that places the piece appends its blocks to the stack, before the line
\* clear of that frame, and takes it out of the pieces. What remains is never
\* negative, so a piece is placed and merged after a bounded number of frames in play.
C36_PlacementProgress ==
    /\ [][(/\ current = "play" /\ Len(pieces) = 1 /\ Len(tickQueue) > 0
           /\ Frame(PlayLimits)
           /\ lastRun'[1].run = "shiftPieceDown") =>
              \/ PlacedInFrame
              \/ /\ Len(pieces') = 1
                 /\ Remains(pieces'[1]) < Remains(pieces[1])]_vars
    /\ [][(Len(pieces) = 1 /\ Len(pieces') = 1 /\ spawned' = spawned) =>
              /\ Remains(pieces'[1]) <= Remains(pieces[1])
              /\ Remains(pieces'[1]) >= 1]_vars
    /\ [][(current = "play" /\ frameCount % TickRate = 0 /\ Frame(PlayLimits)) =>
              \E k \in 1..Len(tickQueue') :
                  tickQueue'[k] = Tick(1, "shiftPieceDown", ticksQueued + 1)]_vars
    /\ [][(/\ current = "play"
           /\ \E k \in 1..Len(tickQueue) : tickQueue[k].priority = 1
           /\ Frame(PlayLimits)) =>
              lastRun' = <<OldestGravity>>]_vars
    /\ [][(current = "play" /\ Len(pieces) = 1 /\ Frame(PlayLimits) /\ PlacedInFrame) =>
              /\ StackAtCadence = Merged
              /\ \A k \in 1..Len(pieces') : pieces'[k] # pieces[1]]_vars

\* C36 witness: the player has used every input on the second piece and a gravity tick
\* has then placed it: the stack holds two pieces and the third is in play
C36_Witness ==
    /\ inputsUsed = PlayMaxInputs
    /\ Len(lastRun) = 1 /\ isGravity(lastRun[1])
    /\ Len(spawned) = 3 /\ Len(stack) = 8
    /\ pieces = <<NewPiece(spawned[3])>>

(* ---------------- claims: no input tick waits for ever ---------------- *)
\* C37, in finite form, for a game in which every key is pressed while the first piece
\* is in play: the frames in play that follow run the input ticks, so that none of them
\* is still waiting in the queue when the game is over.
C37_InputTicksRun ==
    current = "over" => \A k \in 1..Len(tickQueue) : ~isInput(tickQueue[k])

(* ---------------- claims: the score ---------------- *)
\* the blocks removed from the stack in this game: 4 for every piece that was dealt and
\* is no longer in play, less the blocks the stack holds
BlocksRemoved == 4 * (Len(spawned) - Len(pieces)) - Len(stack)

\* C38: in one game the score is 100 for every row removed from the stack, a row being
\* board.columns blocks, and no step other than the init() of a new game lowers it.
C38_ScoreCountsRows ==
    /\ [][score' * Columns = 100 * BlocksRemoved']_vars
    /\ [][score' < score => (score' = 0 /\ spawned' = <<>> /\ stack' = <<>>)]_vars

\* C38 witness: two rows have been removed in one game and the stack is not empty
C38_Witness == score = 200 /\ Len(stack) > 0 /\ Len(pieces) = 1
====
